---- MODULE Spec2Model ----
(***************************************************************************)
(* goLogger (src/logger.go): a slog.Handler decorator that forwards every  *)
(* record to the base JSON handler and, in one goroutine per log target,   *)
(* to the attached log targets.  Target errors travel over an unbuffered   *)
(* channel to one consumption goroutine, which logs them through the same  *)
(* logger while the shared counter is at most 5; a decay goroutine lowers  *)
(* the counter by one per second.                                          *)
(*                                                                         *)
(* Processes of the model: one caller of Handle, the sink goroutines       *)
(* (tasks), the consumption goroutine of New and the decay goroutine of    *)
(* newTargetLogCounter.  Time is not modelled: the goroutines interleave   *)
(* freely, a SendLog or a base write may take arbitrarily long.            *)
(*                                                                         *)
(* Spec and FairSpec take get(), increment() and decrement() as one step   *)
(* each; LockSpec takes them lock by lock.  DeriveSpec adds the calls of   *)
(* WithAttrs / WithGroup, PanicSpec a SendLog that panics, ChanSpec        *)
(* follows one goroutine through the channel's queue of blocked senders.   *)
(***************************************************************************)
EXTENDS Integers, Sequences, FiniteSets, TLC

\* ------------------------------------------------------------------ bounds
MaxSinks == 2
MaxRecords == 2
\* Sink goroutines of returning targets that may be in flight at once.
MaxTasks == 2
\* Decrements of the decay goroutine within the horizon of Spec; the count of
\* decrements saturates here.
MaxDecay == 1
\* customHandler values: the one of New and those WithAttrs / WithGroup return.
MaxHandlers == 3

\* ------------------------------------------------------- program constants
\* `if tLogCounter.get() > 5` (New).
Threshold == 5

\* The observation counters (entries written, failures received) saturate at
\* the first failure that finds the counter above the threshold in a run
\* without decay: the seventh.
CountCap == Threshold + 2

\* The record logger.Error("Error in custom handler", ...) builds; the
\* application records are 1..MaxRecords.
Echo == 0
Records == 0..MaxRecords
AppRecords == 1..MaxRecords

\* How an attached LogTarget's SendLog behaves: it returns nil, returns an
\* error, or never returns.
Kinds == {"ok", "fail", "hang"}

\* And a LogTarget whose SendLog panics (a nil map, an index out of range).
PanicKinds == Kinds \cup {"panic"}

Min(a, b) == IF a < b THEN a ELSE b

VARIABLES
    logTargets,   \* customHandler.logTargets: the kinds of the attached targets
    tasks,        \* sink goroutines inside a SendLog that returns: [target, rec] -> how many
    stuck,        \* the targets with a goroutine inside a SendLog that never returns
    pushing,      \* sink goroutines blocked in `h.errorChannel <- err`
    counter,      \* targetLogCounter.counter
    callerPc,     \* "idle" | "base": the caller's position in Handle
    callerRec,    \* the record the caller's Handle is working on
    nextRec,      \* the next application record
    baseRes,      \* what the base handler's Handle returned to the caller's last Handle
    ret,          \* what the caller's last Handle returned
    appOut,       \* application records delivered to the base handler, in order
    errEntries,   \* error entries delivered to the base handler (saturating)
    consPc,       \* "recv" | "got" | "handle" | "base" | "inc": the consumption goroutine
    seen,         \* the value tLogCounter.get() returned for the held error
    curEntries,   \* entries written for the held error
    recvd,        \* failures received from the channel (saturating)
    decayPc,      \* "get" | "dec": the decay goroutine
    decs,         \* how often decrement() has run (saturating)
    decSince,     \* whether decrement() has run since the get() for the held error
    counting,     \* whether errEntries, recvd and decs are kept (they observe only)
    handlers,     \* the customHandler values made so far; handlers[1] is the one of New
    mu,           \* targetLogCounter.mu: how many hold it for writing (w), for reading (r)
    loaded,       \* the value `c.counter++` / `c.counter--` has read, per goroutine
    balance,      \* completed increment() calls minus completed decrement() calls
    ahead         \* the place of one observed goroutine in the channel's queue of senders; 0: none

vars == <<logTargets, tasks, stuck, pushing, counter, callerPc, callerRec, nextRec,
          baseRes, ret, appOut, errEntries, consPc, seen, curEntries, recvd,
          decayPc, decs, decSince, counting, handlers, mu, loaded, balance, ahead>>

\* One more on an observation counter that saturates at cap.
Count(n, cap) == IF counting THEN Min(n + 1, cap) ELSE n

callerVars == <<callerPc, callerRec, nextRec, baseRes, ret, appOut>>
consVars == <<consPc, seen, curEntries, recvd>>
decayVars == <<decayPc, decs, decSince>>
lockVars == <<mu, loaded>>

\* --------------------------------------------------------------- the tasks
TaskKeys == [target : 1..MaxSinks, rec : Records]

NoTasks == [k \in TaskKeys |-> 0]

NSinks == Len(logTargets)

KindOf(k) == logTargets[k.target]

RECURSIVE SumTasks(_, _)
SumTasks(t, S) ==
    IF S = {} THEN 0
    ELSE LET k == CHOOSE x \in S : TRUE IN t[k] + SumTasks(t, S \ {k})

\* Goroutines in flight whose SendLog returns or has returned.
InFlight == SumTasks(tasks, TaskKeys) + pushing

\* `go func() { err := target.SendLog(ctx, r) ... }()`: one more goroutine in
\* SendLog of target j with record rec.  A goroutine inside a SendLog that
\* never returns does not act again: of those only the targets are kept.
Go(t, j, rec) ==
    IF logTargets[j] = "hang" THEN t
    ELSE [t EXCEPT ![[target |-> j, rec |-> rec]] = @ + 1]

\* The targets with a goroutine inside a SendLog that never returns, after
\* the goroutines of one Handle were launched with the bindings b.
Stuck(st, b) == st \cup {b[i] : i \in {x \in DOMAIN b : logTargets[b[x]] = "hang"}}

\* The target the goroutine launched in iteration i of
\* `for _, target := range h.logTargets` calls.  The goroutine's closure reads
\* the loop variable `target` when it runs, unsynchronised with the loop: with
\* a loop variable shared by the iterations (the language before Go 1.22; the
\* package needs 1.21 for log/slog) it reads the target of iteration i or of
\* a later one, with a per-iteration variable that of iteration i.
LoopVarTargets(i, n) == i..n

RECURSIVE Launch(_, _, _, _)
Launch(t, b, i, rec) ==
    IF i > Len(b) THEN t ELSE Launch(Go(t, b[i], rec), b, i + 1, rec)

\* The bindings the goroutines of one Handle can get.
Bindings(n) ==
    {b \in [1..n -> 1..n] : \A i \in 1..n : b[i] \in LoopVarTargets(i, n)}

\* Handle launching no goroutines for the entries of the consumption loop.
SpawnTasksAppOnly(t, b, rec) ==
    IF NSinks = 0 \/ rec = Echo THEN t ELSE Launch(t, b, 1, rec)

\* customHandler.Handle, lines 65-74: the tasks after launching one goroutine
\* per attached target (none when logTargets is nil).
SpawnTasks(t, b, rec) == IF NSinks = 0 THEN t ELSE Launch(t, b, 1, rec)

\* Handle returning after the loop when targets are attached.
BaseHandleSkipped(out, rec) == IF NSinks > 0 THEN out ELSE Append(out, rec)

\* The base handler putting the record in front of its output.
BaseHandleInFront(out, rec) == <<rec>> \o out

\* customHandler.Handle, line 75: the record is handed to the base handler.
BaseHandle(out, rec) == Append(out, rec)

\* Handle swallowing the base handler's error.
HandleReturnNil(res) == "nil"

\* customHandler.Handle, line 75: the base handler's result is returned.
HandleReturn(res) == res

\* Handle joining its goroutines (a sync.WaitGroup) before the base write.
MayGoOnJoined(rec) ==
    /\ stuck = {}
    /\ \A j \in 1..MaxSinks : tasks[[target |-> j, rec |-> rec]] = 0

\* customHandler.Handle, lines 67-72: the goroutines are launched with `go`
\* and never joined, so Handle goes on to line 75 whatever they do.
MayGoOn(rec) == TRUE

\* The base JSON handler's Handle: nil, or the writer's error.
BaseResults == {"nil", "werr"}

\* How a call of SendLog of a target of the given kind ends.
SendLogResults(kind) ==
    CASE kind = "ok" -> {"nil"}
      [] kind = "fail" -> {"err"}
      [] kind = "hang" -> {}
      [] kind = "panic" -> {"panic"}

\* ------------------------------------------------------- the handler values
\* `errorChannel := make(chan error)` (New): the one channel New makes.
ErrorChannel == "errorChannel"

\* `&customHandler{handler, logTargets, errorChannel}` (New): the handler wraps
\* the JSON handler as slog.NewJSONHandler made it.
NewHandler(targets) ==
    [handler |-> <<>>, logTargets |-> targets, errorChannel |-> ErrorChannel]

\* WithAttrs giving the new handler a channel of its own.
WithAttrsOwnChannel(h) ==
    [handler |-> Append(h.handler, "attrs"),
     logTargets |-> h.logTargets,
     errorChannel |-> "another"]

\* customHandler.WithAttrs: the base handler's WithAttrs, the receiver's
\* logTargets and errorChannel.
WithAttrs(h) ==
    [handler |-> Append(h.handler, "attrs"),
     logTargets |-> h.logTargets,
     errorChannel |-> h.errorChannel]

\* customHandler.WithGroup: the base handler's WithGroup, the receiver's
\* logTargets and errorChannel.
WithGroup(h) ==
    [handler |-> Append(h.handler, "group"),
     logTargets |-> h.logTargets,
     errorChannel |-> h.errorChannel]

\* ------------------------------------------------------------------- Init
\* New(writer, logTargets...): the handler, the channel, the counter at 0, the
\* consumption goroutine waiting on the channel, the decay goroutine at its
\* first get().
TargetLists(kinds, n) == UNION {[1..m -> kinds] : m \in 0..n}

NewWith(lists) ==
    /\ logTargets \in lists
    /\ tasks = NoTasks
    /\ stuck = {}
    /\ pushing = 0
    /\ counter = 0
    /\ callerPc = "idle"
    /\ callerRec = 0
    /\ nextRec = 1
    /\ baseRes = "none"
    /\ ret = "none"
    /\ appOut = <<>>
    /\ errEntries = 0
    /\ consPc = "recv"
    /\ seen = 0
    /\ curEntries = 0
    /\ recvd = 0
    /\ decayPc = "get"
    /\ decs = 0
    /\ decSince = FALSE
    /\ handlers = <<NewHandler(logTargets)>>
    /\ mu = [w |-> 0, r |-> 0]
    /\ loaded = [cons |-> 0, decay |-> 0]
    /\ balance = 0
    /\ ahead = 0

New == NewWith(TargetLists(Kinds, MaxSinks))

Init == New /\ counting = TRUE

\* ------------------------------------------------------------- the caller
\* Handle, lines 65-74, called with the next application record.  At most
\* MaxTasks goroutines whose SendLog returns are in flight: one that would
\* exceed it is not launched before others have ended.
CallerHandle ==
    /\ callerPc = "idle"
    /\ nextRec <= MaxRecords
    /\ InFlight + NSinks <= MaxTasks
    /\ \E b \in Bindings(NSinks) :
         /\ tasks' = SpawnTasks(tasks, b, nextRec)
         /\ stuck' = Stuck(stuck, b)
    /\ callerPc' = "base"
    /\ callerRec' = nextRec
    /\ nextRec' = nextRec + 1
    /\ baseRes' = "none"
    /\ ret' = "none"
    /\ UNCHANGED <<counting, logTargets, pushing, counter, appOut, errEntries>>
    /\ UNCHANGED <<consVars, decayVars>>
    /\ UNCHANGED <<handlers, lockVars, balance, ahead>>

\* Handle, line 75: `return h.handler.Handle(ctx, r)`.
CallerBase ==
    /\ callerPc = "base"
    /\ MayGoOn(callerRec)
    /\ \E res \in BaseResults :
         /\ baseRes' = res
         /\ ret' = HandleReturn(res)
    /\ appOut' = BaseHandle(appOut, callerRec)
    /\ callerPc' = "idle"
    /\ UNCHANGED <<counting, logTargets, tasks, stuck, pushing, counter, callerRec, nextRec, errEntries>>
    /\ UNCHANGED <<consVars, decayVars>>
    /\ UNCHANGED <<handlers, lockVars, balance, ahead>>

\* h.WithAttrs(attrs) called on the i-th handler: one more handler value.
CallWithAttrs(i) ==
    /\ Len(handlers) < MaxHandlers
    /\ handlers' = Append(handlers, WithAttrs(handlers[i]))
    /\ UNCHANGED <<counting, logTargets, tasks, stuck, pushing, counter, errEntries>>
    /\ UNCHANGED <<callerVars, consVars, decayVars>>
    /\ UNCHANGED <<lockVars, balance, ahead>>

\* h.WithGroup(name) called on the i-th handler.
CallWithGroup(i) ==
    /\ Len(handlers) < MaxHandlers
    /\ handlers' = Append(handlers, WithGroup(handlers[i]))
    /\ UNCHANGED <<counting, logTargets, tasks, stuck, pushing, counter, errEntries>>
    /\ UNCHANGED <<callerVars, consVars, decayVars>>
    /\ UNCHANGED <<lockVars, balance, ahead>>

\* ------------------------------------------------------ the sink goroutines
\* Lines 68-69: SendLog returns nil and the goroutine ends.
TaskOk(k) ==
    /\ tasks[k] > 0
    /\ "nil" \in SendLogResults(KindOf(k))
    /\ tasks' = [tasks EXCEPT ![k] = @ - 1]
    /\ UNCHANGED <<counting, logTargets, stuck, pushing, counter, errEntries>>
    /\ UNCHANGED <<callerVars, consVars, decayVars>>
    /\ UNCHANGED <<handlers, lockVars, balance, ahead>>

\* Lines 68-70: SendLog returns an error and the goroutine goes to send it on
\* the channel.
TaskErr(k) ==
    /\ tasks[k] > 0
    /\ "err" \in SendLogResults(KindOf(k))
    /\ tasks' = [tasks EXCEPT ![k] = @ - 1]
    /\ pushing' = pushing + 1
    /\ UNCHANGED <<counting, logTargets, stuck, counter, errEntries>>
    /\ UNCHANGED <<callerVars, consVars, decayVars>>
    /\ UNCHANGED <<handlers, lockVars, balance, ahead>>

\* TaskErr of the goroutine that is observed from here on: it is the last in
\* the channel's queue of blocked senders.
TaskErrObserved(k) ==
    /\ ahead = 0
    /\ tasks[k] > 0
    /\ "err" \in SendLogResults(KindOf(k))
    /\ tasks' = [tasks EXCEPT ![k] = @ - 1]
    /\ pushing' = pushing + 1
    /\ ahead' = pushing + 1
    /\ UNCHANGED <<counting, logTargets, stuck, counter, errEntries>>
    /\ UNCHANGED <<callerVars, consVars, decayVars>>
    /\ UNCHANGED <<handlers, lockVars, balance>>

\* Line 68: SendLog panics.  The goroutine of lines 67-72 defers no recover,
\* so the panic leaves it and the runtime ends the process: the caller, the
\* consumption and the decay goroutine and every sink goroutine stop.
TaskPanic(k) ==
    /\ tasks[k] > 0
    /\ "panic" \in SendLogResults(KindOf(k))
    /\ callerPc' = "dead"
    /\ consPc' = "dead"
    /\ decayPc' = "dead"
    /\ tasks' = NoTasks
    /\ stuck' = {}
    /\ pushing' = 0
    /\ ahead' = 0
    /\ UNCHANGED <<counting, logTargets, counter, errEntries>>
    /\ UNCHANGED <<callerRec, nextRec, baseRes, ret, appOut>>
    /\ UNCHANGED <<seen, curEntries, recvd, decs, decSince>>
    /\ UNCHANGED <<handlers, lockVars, balance>>

\* ------------------------------------------------- the consumption goroutine
\* The receive taking the sender that came last.
RecvLast(a, p) == IF a = p THEN 0 ELSE a

\* The place of the observed sender after a receive, p senders being blocked:
\* the channel serves its blocked senders first come, first served.
RecvFirst(a, p) == IF a > 0 THEN a - 1 ELSE 0

\* `for err := range errorChannel` meets `h.errorChannel <- err`: the channel
\* is unbuffered, so the send completes when the loop receives.
ConsRecv ==
    /\ consPc = "recv"
    /\ pushing > 0
    /\ pushing' = pushing - 1
    /\ consPc' = "got"
    /\ curEntries' = 0
    /\ recvd' = Count(recvd, CountCap)
    /\ ahead' = RecvFirst(ahead, pushing)
    /\ UNCHANGED <<counting, logTargets, tasks, stuck, counter, errEntries, seen>>
    /\ UNCHANGED <<callerVars, decayVars>>
    /\ UNCHANGED <<handlers, lockVars, balance>>

\* The comparison off by one.
OverThresholdEq(v) == v >= Threshold

\* The comparison with the bound one too high.
OverThresholdLate(v) == v > Threshold + 1

\* Whether the loop skips the received error: `tLogCounter.get() > 5`.
OverThreshold(v) == v > Threshold

\* Lines 39-42: get(), then `continue` or on to logger.Error (the error a
\* goroutine sends is never nil).
ConsGet ==
    /\ consPc = "got"
    /\ IF OverThreshold(counter)
         THEN consPc' = "recv" /\ seen' = 0
         ELSE consPc' = "handle" /\ seen' = counter
    /\ decSince' = FALSE
    /\ UNCHANGED <<counting, logTargets, tasks, stuck, pushing, counter, errEntries>>
    /\ UNCHANGED <<curEntries, recvd, decayPc, decs>>
    /\ UNCHANGED callerVars
    /\ UNCHANGED <<handlers, lockVars, balance, ahead>>

\* Line 43: logger.Error calls customHandler.Handle with the error record:
\* lines 65-74 of Handle.
ConsHandle ==
    /\ consPc = "handle"
    /\ InFlight + NSinks <= MaxTasks
    /\ \E b \in Bindings(NSinks) :
         /\ tasks' = SpawnTasks(tasks, b, Echo)
         /\ stuck' = Stuck(stuck, b)
    /\ consPc' = "base"
    /\ UNCHANGED <<counting, logTargets, pushing, counter, errEntries>>
    /\ UNCHANGED <<seen, curEntries, recvd>>
    /\ UNCHANGED <<callerVars, decayVars>>
    /\ UNCHANGED <<handlers, lockVars, balance, ahead>>

\* Line 43, line 75 of Handle: the error record reaches the base handler;
\* logger.Error drops Handle's result.
ConsBase ==
    /\ consPc = "base"
    /\ MayGoOn(Echo)
    /\ errEntries' = Count(errEntries, CountCap)
    /\ curEntries' = curEntries + 1
    /\ consPc' = "inc"
    /\ UNCHANGED <<counting, logTargets, tasks, stuck, pushing, counter>>
    /\ UNCHANGED <<seen, recvd>>
    /\ UNCHANGED <<callerVars, decayVars>>
    /\ UNCHANGED <<handlers, lockVars, balance, ahead>>

\* increment adding two.
incrementTwice(c) == c + 2

\* targetLogCounter.increment.
increment(c) == c + 1

\* Line 44.
ConsInc ==
    /\ consPc = "inc"
    /\ counter' = increment(counter)
    /\ balance' = balance + 1
    /\ consPc' = "recv"
    /\ seen' = 0 /\ curEntries' = 0 /\ decSince' = FALSE
    /\ UNCHANGED <<counting, logTargets, tasks, stuck, pushing, errEntries, recvd>>
    /\ UNCHANGED <<decayPc, decs>>
    /\ UNCHANGED callerVars
    /\ UNCHANGED <<handlers, lockVars, ahead>>

\* ------------------------------------------------------ the decay goroutine
\* decrement subtracting two.
decrementTwice(c) == c - 2

\* targetLogCounter.decrement.
decrement(c) == c - 1

\* The comparison off by one.
DecayDueEq(v) == v >= 0

\* Decay only of a counter above the threshold.
DecayDueAbove(v) == v > Threshold

\* Whether the decay goroutine decrements: `tlc.get() > 0`.
DecayDue(v) == v > 0

\* Line 171: get(); with nothing to decrement the goroutine sleeps and comes
\* back here.
DecayGet ==
    /\ decayPc = "get"
    /\ decayPc' = IF DecayDue(counter) THEN "dec" ELSE "get"
    /\ UNCHANGED <<counting, logTargets, tasks, stuck, pushing, counter, errEntries, decs, decSince>>
    /\ UNCHANGED <<callerVars, consVars>>
    /\ UNCHANGED <<handlers, lockVars, balance, ahead>>

\* Lines 172-174: decrement(), sleep, and back to get().
DecayDec ==
    /\ decayPc = "dec"
    /\ counter' = decrement(counter)
    /\ balance' = balance - 1
    /\ decs' = Count(decs, MaxDecay)
    /\ decSince' = (consPc \in {"handle", "base", "inc"})
    /\ decayPc' = "get"
    /\ UNCHANGED <<counting, logTargets, tasks, stuck, pushing, errEntries>>
    /\ UNCHANGED <<callerVars, consVars>>
    /\ UNCHANGED <<handlers, lockVars, ahead>>

\* ------------------------------------------ the counter, lock by lock
\* The calls of get(), increment() and decrement() above, taken apart into
\* their steps on targetLogCounter.mu and targetLogCounter.counter.

\* A Lock that does not wait.
MayLockAlways(m) == TRUE

\* c.mu.Lock() returns when nobody holds the lock.
MayLock(m) == m.w = 0 /\ m.r = 0

\* c.mu.RLock() returns when nobody holds the lock for writing.
MayRLock(m) == m.w = 0

\* get() of the consumption goroutine (line 39): c.mu.RLock().
ConsRLock ==
    /\ consPc = "got"
    /\ MayRLock(mu)
    /\ mu' = [mu EXCEPT !.r = @ + 1]
    /\ consPc' = "get.rlocked"
    /\ UNCHANGED <<counting, logTargets, tasks, stuck, pushing, counter, errEntries>>
    /\ UNCHANGED <<seen, curEntries, recvd, loaded>>
    /\ UNCHANGED <<callerVars, decayVars>>
    /\ UNCHANGED <<handlers, balance, ahead>>

\* `return c.counter` and the deferred c.mu.RUnlock(); lines 39-42 then
\* `continue` or go on to logger.Error.
ConsRUnlock ==
    /\ consPc = "get.rlocked"
    /\ mu' = [mu EXCEPT !.r = @ - 1]
    /\ IF OverThreshold(counter)
         THEN consPc' = "recv" /\ seen' = 0
         ELSE consPc' = "handle" /\ seen' = counter
    /\ decSince' = FALSE
    /\ UNCHANGED <<counting, logTargets, tasks, stuck, pushing, counter, errEntries>>
    /\ UNCHANGED <<curEntries, recvd, decayPc, decs, loaded>>
    /\ UNCHANGED callerVars
    /\ UNCHANGED <<handlers, balance, ahead>>

\* increment() (line 44): c.mu.Lock().
ConsLock ==
    /\ consPc = "inc"
    /\ MayLock(mu)
    /\ mu' = [mu EXCEPT !.w = @ + 1]
    /\ consPc' = "inc.locked"
    /\ UNCHANGED <<counting, logTargets, tasks, stuck, pushing, counter, errEntries>>
    /\ UNCHANGED <<seen, curEntries, recvd, loaded>>
    /\ UNCHANGED <<callerVars, decayVars>>
    /\ UNCHANGED <<handlers, balance, ahead>>

\* `c.counter++` reads the counter.
ConsLoad ==
    /\ consPc = "inc.locked"
    /\ loaded' = [loaded EXCEPT !.cons = counter]
    /\ consPc' = "inc.loaded"
    /\ UNCHANGED <<counting, logTargets, tasks, stuck, pushing, counter, errEntries>>
    /\ UNCHANGED <<seen, curEntries, recvd, mu>>
    /\ UNCHANGED <<callerVars, decayVars>>
    /\ UNCHANGED <<handlers, balance, ahead>>

\* `c.counter++` writes the counter, the deferred c.mu.Unlock() runs and
\* increment() returns.
ConsStore ==
    /\ consPc = "inc.loaded"
    /\ counter' = increment(loaded.cons)
    /\ mu' = [mu EXCEPT !.w = @ - 1]
    /\ balance' = balance + 1
    /\ consPc' = "recv"
    /\ seen' = 0 /\ curEntries' = 0 /\ decSince' = FALSE
    /\ UNCHANGED <<counting, logTargets, tasks, stuck, pushing, errEntries, recvd>>
    /\ UNCHANGED <<decayPc, decs, loaded>>
    /\ UNCHANGED callerVars
    /\ UNCHANGED <<handlers, ahead>>

\* get() of the decay goroutine (line 171): c.mu.RLock().
DecayRLock ==
    /\ decayPc = "get"
    /\ MayRLock(mu)
    /\ mu' = [mu EXCEPT !.r = @ + 1]
    /\ decayPc' = "get.rlocked"
    /\ UNCHANGED <<counting, logTargets, tasks, stuck, pushing, counter, errEntries>>
    /\ UNCHANGED <<decs, decSince, loaded>>
    /\ UNCHANGED <<callerVars, consVars>>
    /\ UNCHANGED <<handlers, balance, ahead>>

\* `return c.counter` and the deferred c.mu.RUnlock(); line 171 then goes on
\* to decrement() or to the sleep.
DecayRUnlock ==
    /\ decayPc = "get.rlocked"
    /\ mu' = [mu EXCEPT !.r = @ - 1]
    /\ decayPc' = IF DecayDue(counter) THEN "dec" ELSE "get"
    /\ UNCHANGED <<counting, logTargets, tasks, stuck, pushing, counter, errEntries>>
    /\ UNCHANGED <<decs, decSince, loaded>>
    /\ UNCHANGED <<callerVars, consVars>>
    /\ UNCHANGED <<handlers, balance, ahead>>

\* decrement() (line 172): c.mu.Lock().
DecayLock ==
    /\ decayPc = "dec"
    /\ MayLock(mu)
    /\ mu' = [mu EXCEPT !.w = @ + 1]
    /\ decayPc' = "dec.locked"
    /\ UNCHANGED <<counting, logTargets, tasks, stuck, pushing, counter, errEntries>>
    /\ UNCHANGED <<decs, decSince, loaded>>
    /\ UNCHANGED <<callerVars, consVars>>
    /\ UNCHANGED <<handlers, balance, ahead>>

\* `c.counter--` reads the counter.
DecayLoad ==
    /\ decayPc = "dec.locked"
    /\ loaded' = [loaded EXCEPT !.decay = counter]
    /\ decayPc' = "dec.loaded"
    /\ UNCHANGED <<counting, logTargets, tasks, stuck, pushing, counter, errEntries>>
    /\ UNCHANGED <<decs, decSince, mu>>
    /\ UNCHANGED <<callerVars, consVars>>
    /\ UNCHANGED <<handlers, balance, ahead>>

\* `c.counter--` writes the counter, the deferred c.mu.Unlock() runs and
\* decrement() returns; sleep, and back to get().
DecayStore ==
    /\ decayPc = "dec.loaded"
    /\ counter' = decrement(loaded.decay)
    /\ mu' = [mu EXCEPT !.w = @ - 1]
    /\ balance' = balance - 1
    /\ decs' = Count(decs, MaxDecay)
    /\ decSince' = (consPc \in {"handle", "base", "inc", "inc.locked", "inc.loaded"})
    /\ decayPc' = "get"
    /\ UNCHANGED <<counting, logTargets, tasks, stuck, pushing, errEntries, loaded>>
    /\ UNCHANGED <<callerVars, consVars>>
    /\ UNCHANGED <<handlers, ahead>>

\* ------------------------------------------------------- the specification
Task == \E k \in TaskKeys : TaskOk(k) \/ TaskErr(k)

Consumer == ConsRecv \/ ConsGet \/ ConsHandle \/ ConsBase \/ ConsInc

Caller == CallerHandle \/ CallerBase

\* The executions with at most MaxDecay decrements.
Next == Caller \/ Task \/ Consumer \/ DecayGet \/ (decs < MaxDecay /\ DecayDec)

Spec == Init /\ [][Next]_vars

\* The executions of any length, explored without the observation counters.
\* Every goroutine that can run does run: a Handle that was called goes on to
\* its return, a SendLog of a target that returns does return, the consumption
\* and the decay goroutine are scheduled.  The caller is free not to call.
FairInit == New /\ counting = FALSE

FairNext == Caller \/ Task \/ Consumer \/ DecayGet \/ DecayDec

Fairness ==
    /\ WF_vars(CallerBase)
    /\ \A k \in TaskKeys : WF_vars(TaskOk(k) \/ TaskErr(k))
    /\ WF_vars(Consumer)
    /\ WF_vars(DecayGet \/ DecayDec)

FairSpec == FairInit /\ [][FairNext]_vars /\ Fairness

\* The executions of FairSpec with one sending goroutine observed, of loggers
\* with at most one target: there the bound MaxTasks never holds back the
\* Handle of the consumption goroutine, which the code never holds back.
ChanInit == NewWith(TargetLists(Kinds, 1)) /\ counting = FALSE

ChanNext == FairNext \/ \E k \in TaskKeys : TaskErrObserved(k)

ChanSpec == ChanInit /\ [][ChanNext]_vars /\ Fairness

\* The executions in which the application also derives handlers, of loggers
\* with at most one target: a derivation copies the sink list whatever its
\* length and touches nothing else.
DeriveInit == NewWith(TargetLists(Kinds, 1)) /\ counting = TRUE

Derive == \E i \in DOMAIN handlers : CallWithAttrs(i) \/ CallWithGroup(i)

DeriveNext == Next \/ Derive

DeriveSpec == DeriveInit /\ [][DeriveNext]_vars

\* The executions with at most MaxDecay decrements in which every call on the
\* counter is taken lock by lock, of loggers with at most one target: the
\* counter is touched by the consumption and the decay goroutine only.
LockInit == NewWith(TargetLists(Kinds, 1)) /\ counting = TRUE

ConsumerLocking ==
    ConsRecv \/ ConsRLock \/ ConsRUnlock \/ ConsHandle \/ ConsBase
      \/ ConsLock \/ ConsLoad \/ ConsStore

DecayLocking ==
    DecayRLock \/ DecayRUnlock \/ (decs < MaxDecay /\ DecayLock)
      \/ DecayLoad \/ DecayStore

LockNext == Caller \/ Task \/ ConsumerLocking \/ DecayLocking

LockSpec == LockInit /\ [][LockNext]_vars

\* The executions of Spec and those of loggers with a target whose SendLog
\* panics.
PanicInit == NewWith(TargetLists(PanicKinds, MaxSinks)) /\ counting = TRUE

PanicNext == Next \/ \E k \in TaskKeys : TaskPanic(k)

PanicSpec == PanicInit /\ [][PanicNext]_vars

\* ---------------------------------------------------------------- claims
\* How often application record r was delivered to the base handler.
Occ(r) == Cardinality({i \in DOMAIN appOut : appOut[i] = r})

\* Application record r was passed to Handle and Handle has returned.
Returned(r) == r < nextRec /\ ~(callerPc = "base" /\ callerRec = r)

\* No goroutine of a returning target is in flight.
NoneInFlight == tasks = NoTasks /\ pushing = 0

\* C1: every record passed to Handle is delivered to the base handler exactly
\* once and during the Handle call: not before the call reaches line 75, once
\* by the time it has returned, whatever the targets do (return nil, return an
\* error, take long, never return).
C1_BaseExactlyOnce ==
    \A r \in AppRecords : Occ(r) = IF Returned(r) THEN 1 ELSE 0

\* Both records were handled and delivered while a target hangs and a failed
\* send is still waiting on the channel.
C1_Witness ==
    /\ callerPc = "idle"
    /\ nextRec > MaxRecords
    /\ \A r \in AppRecords : Occ(r) = 1
    /\ stuck # {}
    /\ pushing > 0

\* C2: what Handle returns is what the base handler's Handle returned for the
\* record: the writer's error reaches the caller, and a failing target never
\* makes Handle return an error.
C2_ReturnsBaseResult ==
    (callerPc = "idle" /\ nextRec > 1) => (ret = baseRes /\ ret \in BaseResults)

\* Handle returned nil although a send of a target had failed by then.
C2_Witness ==
    /\ callerPc = "idle"
    /\ nextRec > 1
    /\ ret = "nil"
    /\ pushing > 0

\* No send of an application record to a target that returns is running.
AppSendsOver == \A k \in TaskKeys : k.rec \in AppRecords => tasks[k] = 0

\* C3: Handle does not wait for the sends.  With every goroutine scheduled, a
\* Handle that was called returns and has made its base write, also while a
\* SendLog blocks forever, and the sends of the application records (each is
\* launched once) to the targets that do return all come to their end.
C3_HandleDoesNotWait ==
    /\ (callerPc = "base") ~> (callerPc = "idle" /\ Occ(callerRec) = 1)
    /\ <>[]AppSendsOver

\* A goroutine is stuck in a SendLog that never returns, another target is
\* attached, and all records have been handled and their other sends are over.
C3_Witness ==
    /\ stuck # {}
    /\ \E j \in 1..NSinks : logTargets[j] # "hang"
    /\ callerPc = "idle"
    /\ nextRec > MaxRecords
    /\ Len(appOut) = MaxRecords
    /\ NoneInFlight

\* C4 as stated: the failure for which the loop read v <= 5 leaves the counter
\* at v + 1.
C4_BecomesVPlusOne ==
    [][(consPc = "inc" /\ consPc' = "recv") => counter' = seen + 1]_vars

\* C4, amended: v being the value get() returned to the loop for the received
\* failure: if v <= 5 exactly one entry is written and increment adds one to
\* the counter, which becomes v + 1 unless the decay goroutine has decremented
\* since the get() (then it is lower); if v > 5 the failure is dropped, no
\* entry is written and the counter stays as it is.
C4_LogOrDrop ==
    [][/\ (consPc = "got" /\ consPc' = "recv") =>
            /\ counter > Threshold
            /\ counter' = counter
            /\ errEntries' = errEntries
       /\ (consPc = "got" /\ consPc' = "handle") => seen' <= Threshold
       /\ (consPc = "base" /\ consPc' = "inc") =>
            /\ curEntries = 0
            /\ curEntries' = 1
            /\ errEntries' = Min(errEntries + 1, CountCap)
       /\ (consPc = "inc" /\ consPc' = "recv") =>
            /\ seen <= Threshold
            /\ curEntries = 1
            /\ counter' = counter + 1
            /\ counter' <= seen + 1
            /\ (~decSince => counter' = seen + 1)
      ]_vars

\* The loop is about to increment after a decrement came between its get()
\* and now.
C4_Witness == consPc = "inc" /\ decSince /\ curEntries = 1 /\ counter < seen

\* C5: one target that always fails, no decrement so far: the k-th failure the
\* loop receives, k <= 6, is written as exactly one entry and brings the
\* counter to k; from the seventh on nothing is written.
C5_SixThenSilence ==
    (logTargets = <<"fail">> /\ decs = 0) =>
        /\ consPc = "recv" => (errEntries = Min(recvd, Threshold + 1) /\ counter = errEntries)
        /\ consPc = "got" => (errEntries = Min(recvd - 1, Threshold + 1) /\ counter = errEntries)
        /\ consPc \in {"handle", "base"} =>
              (recvd <= Threshold + 1 /\ errEntries = recvd - 1 /\ counter = errEntries)
        /\ consPc = "inc" =>
              (recvd <= Threshold + 1 /\ errEntries = recvd /\ curEntries = 1 /\ counter = recvd - 1)

\* The seventh failure has been received and dropped: six entries, counter 6.
C5_Witness ==
    /\ logTargets = <<"fail">>
    /\ decs = 0
    /\ recvd = Threshold + 2
    /\ consPc = "recv"
    /\ errEntries = Threshold + 1
    /\ counter = Threshold + 1

\* C6 as stated: a target that succeeds and one that fails, one application
\* record: the base handler gets the record once and at most one error entry
\* is ever written.
C6_OneErrorEntry ==
    (logTargets \in {<<"ok", "fail">>, <<"fail", "ok">>} /\ nextRec <= 2) =>
        (Occ(1) <= 1 /\ errEntries <= 1)

\* C7: the decay goroutine lowers the counter by exactly one, and only having
\* read it positive; any other step that changes the counter is the loop's
\* increment; the counter is never below 0.
C7_DecayByOneNotBelowZero ==
    /\ [](counter >= 0)
    /\ [][/\ (decayPc = "dec" /\ decayPc' = "get") =>
               (counter > 0 /\ counter' = counter - 1)
          /\ (decayPc = "get" /\ decayPc' = "dec") => counter > 0
          /\ (counter' # counter /\ decayPc' = decayPc) =>
               (consPc = "inc" /\ counter' = counter + 1)
         ]_vars

\* The decay goroutine has brought the counter back to 0 after the loop
\* incremented it.
C7_Witness == decs > 0 /\ counter = 0 /\ errEntries > 0

\* C8 as stated: with one target that always fails, error entries are written
\* only finitely often (from some point on the loop never again writes one).
C8_FinitelyManyEntries ==
    (logTargets = <<"fail">>) => <>[](consPc \notin {"handle", "base"})

\* C9: a logger without targets: no goroutine is launched, nothing is sent
\* on the channel, the counter stays 0 and the output is the application
\* records, each once and in order, and no error entry.
C9_NoSinksNoErrorTraffic ==
    (logTargets = <<>>) =>
        /\ tasks = NoTasks /\ stuck = {} /\ pushing = 0
        /\ recvd = 0 /\ consPc = "recv"
        /\ counter = 0
        /\ errEntries = 0
        /\ appOut = [i \in 1..Len(appOut) |-> i]
        /\ Len(appOut) = IF callerPc = "base" THEN nextRec - 2 ELSE nextRec - 1

\* A logger without targets has handled all its records.
C9_Witness ==
    /\ logTargets = <<>>
    /\ callerPc = "idle"
    /\ Len(appOut) = MaxRecords

\* C10 as stated: a Handle called while the counter is above the threshold
\* launches no goroutine.
C10_NoSendAboveThreshold ==
    [][(counter > Threshold /\ callerPc = "idle" /\ callerPc' = "base") =>
           (tasks' = tasks /\ stuck' = stuck)]_vars

\* C11: the sink goroutines are failure-isolated: whatever a SendLog does, an
\* error or a panic, the process is not brought down: the caller goes on
\* running (a Handle under way makes its base write, later records are
\* handled), and so do the other goroutines.
C11_SinkFailureIsolated ==
    /\ callerPc \in {"idle", "base"}
    /\ consPc # "dead"
    /\ decayPc # "dead"

\* C12: WithAttrs and WithGroup return a new handler that wraps the derived
\* base handler and holds the sink list and the error channel of the handler
\* they were called on; no handler made before is changed.  So every handler
\* holds the sink list New got and the one channel the consumption loop
\* ranges over, whose failures are counted in the one counter.
C12_DerivedHandlersShare ==
    /\ [](/\ handlers[1] = NewHandler(logTargets)
          /\ \A i \in DOMAIN handlers :
               /\ handlers[i].logTargets = handlers[1].logTargets
               /\ handlers[i].errorChannel = handlers[1].errorChannel)
    /\ [][handlers' # handlers =>
            /\ Len(handlers') = Len(handlers) + 1
            /\ \A i \in DOMAIN handlers : handlers'[i] = handlers[i]
            /\ \E i \in DOMAIN handlers :
                 /\ handlers'[Len(handlers')].handler \in
                      {Append(handlers[i].handler, d) : d \in {"attrs", "group"}}
                 /\ handlers'[Len(handlers')].logTargets = handlers[i].logTargets
                 /\ handlers'[Len(handlers')].errorChannel = handlers[i].errorChannel]_vars

\* A handler derived from a derived one, in a logger whose loop has logged a
\* failure and has another one waiting on the channel.
C12_Witness ==
    /\ Len(handlers) = MaxHandlers
    /\ handlers[MaxHandlers].handler = <<"attrs", "group">>
    /\ pushing > 0
    /\ counter > 0

\* C13: a slow consumer cannot stall producers: a sink goroutine completes its
\* push onto the error channel without waiting for the consumption loop to
\* receive, so while the loop is busy with an error it has received (reading
\* the counter, writing the entry, incrementing) no goroutine is held in the
\* push.
C13_PushDoesNotWait ==
    consPc \in {"got", "handle", "base", "inc"} => pushing = 0

\* C14: the caller issues its Handle calls one after another, the records
\* numbered in the order of the calls; the application records appear in the
\* local output in that order, whatever the order in which the sends complete
\* and whatever error entries the consumption loop writes in between.
C14_LocalOutputInCallOrder ==
    \A i \in DOMAIN appOut : appOut[i] = i

\* Every record is in the output and an error entry was written, while a
\* send of the first record is still under way and those of the last are over.
C14_Witness ==
    /\ Len(appOut) = MaxRecords
    /\ errEntries > 0
    /\ \E j \in 1..NSinks : tasks[[target |-> j, rec |-> 1]] > 0
    /\ \A j \in 1..MaxSinks : tasks[[target |-> j, rec |-> MaxRecords]] = 0

\* C15: a Handle of a logger with n attached sinks launches exactly n sends
\* of its record, one for each attached sink: no sink is skipped and none
\* gets the record twice.
C15_OneSendPerSink ==
    [][(callerPc = "idle" /\ callerPc' = "base") =>
         \A j \in 1..NSinks :
            IF logTargets[j] = "hang"
              THEN j \in stuck'
              ELSE tasks'[[target |-> j, rec |-> callerRec']] =
                     tasks[[target |-> j, rec |-> callerRec']] + 1]_vars

\* C16: increment, decrement and get exclude each other (a write overlaps
\* neither another write nor a read), and no update is lost: whenever no
\* write is under way the counter is the number of completed increments
\* minus the number of completed decrements.
C16_NoLostUpdate ==
    /\ mu.w <= 1
    /\ mu.w = 1 => mu.r = 0
    /\ mu.w = 0 => counter = balance

\* The loop is at its increment while the decay goroutine, inside
\* decrement(), holds the lock and has read the counter.
C16_Witness ==
    /\ consPc = "inc"
    /\ decayPc = "dec.loaded"
    /\ mu.w = 1
    /\ balance > 0

\* C17: bursts are forgotten: in an execution in which from some point on no
\* sink failure is logged any more, the counter eventually is 0 and stays 0;
\* and a counter above the threshold eventually is at the threshold or below
\* again, where the loop logs a failure.
C17_BurstsForgotten ==
    /\ (<>[](consPc \notin {"handle", "base", "inc"})) => <>[](counter = 0)
    /\ (counter > Threshold) ~> (counter <= Threshold)

\* A logger with one failing target whose failures have all been received:
\* the last one was dropped above the threshold, and the counter is back at 0.
C17_Witness ==
    /\ logTargets = <<"fail">>
    /\ nextRec > 1
    /\ callerPc = "idle"
    /\ NoneInFlight
    /\ consPc = "recv"
    /\ counter = 0

\* C18: the counter is between 0 and 6 in every reachable state, whatever
\* the number of sinks, records and failing sink goroutines: only the one
\* consumption loop increments, and only after get() returned at most 5.
C18_CounterInRange ==
    counter \in 0..(Threshold + 1)

\* The counter at 6 in a logger with several targets, with further failures
\* waiting on the channel.
C18_Witness ==
    /\ counter = Threshold + 1
    /\ NSinks > 1
    /\ pushing > 0

\* C19: a sink goroutine whose SendLog returned an error eventually hands the
\* error to the consumption loop and ends: with the loop scheduled fairly the
\* observed goroutine, any one of those blocked on the channel, is received,
\* however many others are blocked with it and whether the loop logs or
\* drops.  The loop's own Handle is never held back on the way.
C19_PushIsReceived ==
    /\ (ahead > 0) ~> (ahead = 0)
    /\ [](consPc = "handle" => InFlight + NSinks <= MaxTasks)

\* The observed goroutine is blocked on the channel while the loop, above the
\* threshold, is about to drop the error it holds.
C19_Witness ==
    /\ ahead > 0
    /\ pushing > 0
    /\ consPc = "got"
    /\ counter > Threshold

\* The goroutines with record rec.
KeysOf(rec) == {k \in TaskKeys : k.rec = rec}

\* A step that launches the sends of record rec, as many as sinks are
\* attached, and of no other record: the goroutines in a SendLog that returns
\* are NSinks more, but for those that went into a SendLog that never returns.
Dispatched(rec) ==
    /\ \A k \in TaskKeys : k.rec # rec => tasks'[k] = tasks[k]
    /\ \A k \in KeysOf(rec) : tasks'[k] >= tasks[k]
    /\ LET more == SumTasks(tasks', KeysOf(rec)) - SumTasks(tasks, KeysOf(rec))
       IN /\ more <= NSinks
          /\ more < NSinks => \E j \in stuck' : logTargets[j] = "hang"
          /\ (\A j \in 1..NSinks : logTargets[j] # "hang") => more = NSinks

\* C20: an error entry of the consumption loop goes through the fan-out
\* handler like an application record: the loop's logger.Error launches one
\* send of the entry per attached sink and then writes the entry once to the
\* base handler, as the caller's Handle does with an application record.
C20_EntryGoesThroughFanOut ==
    [][/\ (consPc = "handle" /\ consPc' = "base") => Dispatched(Echo)
       /\ (consPc = "base" /\ consPc' = "inc") =>
             /\ curEntries = 0 /\ curEntries' = 1
             /\ tasks' = tasks /\ stuck' = stuck /\ appOut' = appOut
       /\ (callerPc = "idle" /\ callerPc' = "base") => Dispatched(callerRec')
       /\ (callerPc = "base" /\ callerPc' = "idle") =>
             /\ appOut' = Append(appOut, callerRec)
             /\ tasks' = tasks /\ stuck' = stuck /\ curEntries' = curEntries]_vars

\* The loop has written an entry to the base handler, and one send of the
\* entry per sink is under way in a logger with MaxSinks sinks.
C20_Witness ==
    /\ consPc = "inc"
    /\ curEntries = 1
    /\ NSinks = MaxSinks
    /\ SumTasks(tasks, KeysOf(Echo)) = NSinks

====
